---------------------------- MODULE Spec2Model ----------------------------
(***************************************************************************)
(* Matbench Discovery helper scripts as state machines:                    *)
(*   - scripts/upload_data_files_to_figshare.py  main()                    *)
(*   - matbench_discovery/structure.py  analyze_symmetry,                  *)
(*                                      pred_vs_ref_struct_symmetry        *)
(*   - ml_stability/plots/plot_funcs.py                                    *)
(*                       hist_classify_stable_as_func_of_hull_dist         *)
(*   - models/bowsr/slurm_array_bowsr_wbm.py  (Slurm array chunking)       *)
(* Each program has its own variables and its own specification; the       *)
(* variables of the other programs stay at their idle values.              *)
(***************************************************************************)
EXTENDS Integers, Sequences, FiniteSets

\* ------------------------------------------------------------------ bounds
\* number of members of the DataFiles enum
NumDataFiles == 2
\* largest number of files figshare.list_article_files returns
MaxRemoteFiles == 2
\* largest number of structures passed to analyze_symmetry
MaxStructs == 3
\* largest number of material ids in pred_vs_ref_struct_symmetry
MaxMats == 2
\* largest number of materials in the histogram's series
MaxMaterials == 2
\* largest number of rows of the WBM dataset
MaxRows == 5
\* largest size of the Slurm job array (sbatch --array 1-N)
MaxTasks == 3

\* ------------------------------------------------------- generic helpers
\* Python's None / an optional value: <<>> is None, <<x>> is the value x
None == <<>>
Some(x) == <<x>>
IsNone(o) == o = <<>>
Val(o) == o[1]

\* dict[k] = v  (adds the key when it is missing)
Put(f, k, v) == [x \in (DOMAIN f) \cup {k} |-> IF x = k THEN v ELSE f[x]]
EmptyDict == [x \in {} |-> {}]
Range(s) == {s[i] : i \in DOMAIN s}

\* all sequences over S of length at most n
SeqUpTo(S, n) == UNION {[1..k -> S] : k \in 0..n}

VARIABLES
  \* ---- upload_data_files_to_figshare.main
  u_pc,                 \* position in main()
  article_id_arg,       \* the article_id argument (None or Some(id))
  article_exists_resp,  \* what figshare.article_exists answers for it
  yaml_file,            \* content of the file at yaml_path (None: no file)
  yaml_at_start,        \* history: what yaml_file held when main() was called
  local_files,          \* data file -> None (missing) or Some(md5 of content)
  remote_files,         \* the files of the given article on Figshare
  article_id,           \* local variable article_id
  existing_data,        \* local variable existing_data
  existing_files,       \* local variable existing_files
  files_by_name,        \* local variable files_by_name
  files_in_article,     \* local variable files_in_article
  newly_uploaded_files, \* local variable newly_uploaded_files
  u_idx,                \* position of the for loop in DataFiles
  next_file_id,         \* the id Figshare gives the next uploaded file
  calls,                \* history: figshare API calls made so far, in order
  \* ---- structure.analyze_symmetry
  s_pc,                 \* position in analyze_symmetry
  structures,           \* argument: the dict's items in order, each with what
                        \* spglib.get_symmetry_dataset answers for its cell
  symprec,              \* argument symprec
  angle_tolerance,      \* argument angle_tolerance
  s_idx,                \* position of the for loop in structures.items()
  results,              \* local variable results (a dict, in insertion order)
  analyzed,             \* history: keys spglib was called for, in order
  s_error,              \* None, or the key the raised ValueError names
  df_sym,               \* None, or the DataFrame returned
  \* ---- structure.pred_vs_ref_struct_symmetry
  c_pc,                 \* position in pred_vs_ref_struct_symmetry
  df_sym_pred,          \* argument: the caller's DataFrame object
  df_sym_ref,           \* argument df_sym_ref
  pred_structs,         \* argument: the keys of pred_structs
  ref_structs,          \* argument: the keys of ref_structs
  rms_dist,             \* what StructureMatcher.get_rms_dist answers per id
  df_result,            \* local variable df_result (another object)
  shared_ids,           \* the ids the for loop has still to visit
  c_returned,           \* None, or the DataFrame returned
  \* ---- plot_funcs.hist_classify_stable_as_func_of_hull_dist
  h_pc,                     \* position in the function
  formation_energy_targets, \* argument, a Series over the materials
  formation_energy_preds,   \* argument, a Series over the materials
  e_above_hull_vals,        \* argument, a Series over the materials
  std_vals,                 \* argument: None or a Series
  criterion,                \* argument criterion
  energy_type,              \* argument energy_type
  error,                    \* local variable error
  mean,                     \* local variable mean
  test,                     \* local variable test (the same object as mean)
  classes,                  \* local variables true_pos, false_neg, false_pos, true_neg
  counts,                   \* local variables n_true_pos, n_false_pos, n_true_neg, n_false_neg
  n_total_pos,              \* local variable n_total_pos
  \* ---- slurm_array_bowsr_wbm, one process per task of the job array
  b_pc,                 \* task -> position in the script
  df_wbm,               \* the rows (material ids) of the WBM dataset, in order
  job_array_size,       \* SLURM_ARRAY_TASK_COUNT, the N of --array 1-N
  df_this_job,          \* task -> its chunk of df_wbm
  relax_results         \* task -> the materials it has relaxed

uvars == <<u_pc, article_id_arg, article_exists_resp, yaml_file, yaml_at_start,
           local_files, remote_files, article_id, existing_data, existing_files,
           files_by_name, files_in_article, newly_uploaded_files, u_idx, next_file_id, calls>>
svars == <<s_pc, structures, symprec, angle_tolerance, s_idx, results, analyzed,
           s_error, df_sym>>

cvars == <<c_pc, df_sym_pred, df_sym_ref, pred_structs, ref_structs, rms_dist,
           df_result, shared_ids, c_returned>>

hvars == <<h_pc, formation_energy_targets, formation_energy_preds, e_above_hull_vals,
           std_vals, criterion, energy_type, error, mean, test, classes, counts,
           n_total_pos>>
bvars == <<b_pc, df_wbm, job_array_size, df_this_job, relax_results>>

vars == <<uvars, svars, cvars, hvars, bvars>>

\* ==================================================================== upload
\* The DataFiles enum, in definition order.
DataFiles == 1..NumDataFiles
\* data_file.name, the member's key in the YAML file
Name(d) == <<"DataFiles", d>>
DataFileNames == {Name(d) : d \in DataFiles}
\* A YAML key that is no DataFiles member (an entry kept by hand).
OtherKey == <<"by_hand", 0>>
Hashes == {"h1", "h2"}
GivenArticleId == "article_given"
NewArticleIds == {"article_new1", "article_new2"}

\* data_file.rel_path, a path as the tuple of its components
RelPath(d) == <<"wbm", d>>
\* file_path = f"{DATA_DIR}/{data_file.rel_path}"
FilePath(d) == <<"DATA_DIR">> \o RelPath(d)
\* os.path.basename
Basename(p) == p[Len(p)]
\* f"{figshare.DOWNLOAD_URL_PREFIX}/{file_id}"
DownloadUrl(id) == <<"DOWNLOAD_URL_PREFIX", id>>

\* YAML entries the file may hold for a data file: with or without md5
EntryFor(d, h) ==
  IF IsNone(h) THEN [path |-> RelPath(d), description |-> "by hand"]
  ELSE [path |-> RelPath(d), description |-> "by hand", md5 |-> Val(h)]
OtherEntry == [path |-> <<"misc", 0>>, description |-> "kept"]

\* Possible contents of the YAML file: the other key, plus for every data
\* file no entry, an entry without md5, or an entry with a stored md5.
YamlContents ==
  { [k \in {OtherKey} \cup {Name(d) : d \in S} |->
        IF k = OtherKey THEN OtherEntry ELSE EntryFor(k[2], m[k[2]])]
      : S \in SUBSET DataFiles, m \in [DataFiles -> {None} \cup {Some(h) : h \in Hashes}] }

RemoteListings ==
  { [i \in DOMAIN s |-> [name |-> Basename(FilePath(s[i][1])), computed_md5 |-> s[i][2], id |-> i]]
      : s \in SeqUpTo(DataFiles \X Hashes, MaxRemoteFiles) }

UploadInit ==
  /\ u_pc = "check_article"
  /\ article_id_arg \in {None, Some(GivenArticleId)}
  /\ article_exists_resp \in BOOLEAN
  /\ (IsNone(article_id_arg) => article_exists_resp = FALSE)
  /\ yaml_file \in {None} \cup {Some(y) : y \in YamlContents}
  /\ yaml_at_start = yaml_file
  /\ local_files \in [DataFiles -> {None} \cup {Some(h) : h \in Hashes}]
  /\ remote_files \in RemoteListings
  /\ (~article_exists_resp => remote_files = <<>>)
  /\ article_id = article_id_arg
  /\ existing_data = EmptyDict
  /\ existing_files = <<>>
  /\ files_by_name = EmptyDict
  /\ files_in_article = EmptyDict
  /\ newly_uploaded_files = EmptyDict
  /\ u_idx = 1
  /\ next_file_id = Len(remote_files) + 1
  /\ calls = <<>>

\* files_by_name = {file["name"]: file for file in existing_files}:
\* of several files with one name the last listed stays
FilesByName(files) ==
  [n \in {files[i].name : i \in DOMAIN files} |->
     files[CHOOSE i \in DOMAIN files :
             /\ files[i].name = n
             /\ \A j \in DOMAIN files : files[j].name = n => j <= i]]

\* the id of an article that was not found is kept
ResolveArticleIdKept(given, exists) == given

\* lines 19-26: an article id that is given but not found is dropped
ResolveArticleId(given, exists) == IF exists THEN given ELSE None

CheckArticle ==
  /\ UNCHANGED <<svars, cvars, hvars, bvars>>
  /\ u_pc = "check_article"
  /\ IF ~IsNone(article_id)
       THEN /\ calls' = Append(calls, [op |-> "article_exists", article |-> article_id])
            /\ article_id' = ResolveArticleId(article_id, article_exists_resp)
       ELSE UNCHANGED <<calls, article_id>>
  /\ u_pc' = "create_article"
  /\ UNCHANGED <<article_id_arg, article_exists_resp, yaml_file, yaml_at_start, local_files,
                 remote_files, existing_data, existing_files, files_by_name,
                 files_in_article,
                 newly_uploaded_files, u_idx, next_file_id>>

\* lines 53-58: create an article only when there is none
NeedsNewArticle(id) == IsNone(id)

CreateArticle ==
  /\ UNCHANGED <<svars, cvars, hvars, bvars>>
  /\ u_pc = "create_article"
  /\ IF NeedsNewArticle(article_id)
       THEN \E new \in NewArticleIds :
              /\ article_id' = Some(new)
              /\ calls' = Append(calls, [op |-> "create_article", article |-> Some(new)])
       ELSE UNCHANGED <<calls, article_id>>
  /\ u_pc' = "load"
  /\ UNCHANGED <<article_id_arg, article_exists_resp, yaml_file, yaml_at_start, local_files,
                 remote_files, existing_data, existing_files, files_by_name,
                 files_in_article,
                 newly_uploaded_files, u_idx, next_file_id>>

\* figshare.list_article_files: the given article's files; an article that
\* create_article has just made holds none
ListArticleFiles(id) == IF id = article_id_arg THEN remote_files ELSE <<>>

\* lines 61-65: the YAML file's content, or {} when there is no file
LoadYaml(file) == IF IsNone(file) THEN EmptyDict ELSE Val(file)

\* files_in_article starts empty
CopyExistingDropped(data) == EmptyDict

\* line 75: files_in_article starts as a copy of existing_data
CopyExisting(data) == data

\* lines 61-76: load the YAML, list the article's files, set up the dicts
LoadAndList ==
  /\ UNCHANGED <<svars, cvars, hvars, bvars>>
  /\ u_pc = "load"
  /\ existing_data' = LoadYaml(yaml_file)
  /\ calls' = Append(calls, [op |-> "list_article_files", article |-> article_id])
  /\ existing_files' = ListArticleFiles(article_id)
  /\ files_by_name' = FilesByName(existing_files')
  /\ files_in_article' = CopyExisting(existing_data')
  /\ newly_uploaded_files' = EmptyDict
  /\ u_pc' = "loop"
  /\ UNCHANGED <<article_id_arg, article_exists_resp, yaml_file, yaml_at_start, local_files,
                 remote_files, article_id, u_idx, next_file_id>>

\* lines 87-93: the entry's copy, with defaults for a new entry
FileData(data, d) ==
  IF Name(d) \in DOMAIN data /\ DOMAIN data[Name(d)] # {}
    THEN data[Name(d)]
    ELSE [path |-> RelPath(d), description |-> "Description needed"]

\* lines 98-102: the stored MD5 if the entry has one, else the file's
FileHash(file_data, d) ==
  IF "md5" \in DOMAIN file_data THEN file_data["md5"] ELSE Val(local_files[d])

\* lines 104-106: a file of this name is listed and its hash is the same
IsUnchanged(by_name, filename, file_hash) ==
  /\ filename \in DOMAIN by_name
  /\ file_hash = by_name[filename].computed_md5

\* lines 79-118: one iteration of the loop over DataFiles
ProcessDataFile ==
  /\ UNCHANGED <<svars, cvars, hvars, bvars>>
  /\ u_pc = "loop"
  /\ u_idx \in DataFiles
  /\ LET d == u_idx
         filename == Basename(FilePath(d))
         file_hash == FileHash(FileData(existing_data, d), d)
         file_data == Put(FileData(existing_data, d), "md5", file_hash)
     IN  \/ \* lines 83-85: the file does not exist, skip it
            /\ IsNone(local_files[d])
            /\ UNCHANGED <<files_in_article, newly_uploaded_files, calls, next_file_id>>
         \/ \* lines 104-110: unchanged, point at the file already there
            /\ ~IsNone(local_files[d])
            /\ IsUnchanged(files_by_name, filename, file_hash)
            /\ files_in_article' =
                 Put(files_in_article, Name(d),
                     Put(file_data, "url", DownloadUrl(files_by_name[filename].id)))
            /\ UNCHANGED <<newly_uploaded_files, calls, next_file_id>>
         \/ \* lines 112-118: upload the new or modified file
            /\ ~IsNone(local_files[d])
            /\ ~IsUnchanged(files_by_name, filename, file_hash)
            /\ calls' = Append(calls, [op |-> "upload_file", article |-> article_id,
                                       file |-> d, id |-> next_file_id])
            /\ next_file_id' = next_file_id + 1
            /\ files_in_article' =
                 Put(files_in_article, Name(d),
                     Put(file_data, "url", DownloadUrl(next_file_id)))
            /\ newly_uploaded_files' =
                 Put(newly_uploaded_files, Name(d), DownloadUrl(next_file_id))
  /\ u_idx' = u_idx + 1
  /\ UNCHANGED <<u_pc, article_id_arg, article_exists_resp, yaml_file, yaml_at_start,
                 local_files,
                 remote_files, article_id, existing_data, existing_files,
                 files_by_name>>

\* lines 127-129: write files_in_article to yaml_path; line 138: return 0
WriteYaml ==
  /\ UNCHANGED <<svars, cvars, hvars, bvars>>
  /\ u_pc = "loop"
  /\ u_idx = NumDataFiles + 1
  /\ yaml_file' = Some(files_in_article)
  /\ u_pc' = "returned"
  /\ UNCHANGED <<article_id_arg, article_exists_resp, yaml_at_start, local_files,
                 remote_files, article_id, existing_data, existing_files, files_by_name,
                 files_in_article,
                 newly_uploaded_files, u_idx, next_file_id, calls>>

\* a figshare call fails (network, HTTP status): main() raises,
\* lines 131-136 add a note and re-raise; the YAML file is not written
FigshareError ==
  /\ UNCHANGED <<svars, cvars, hvars, bvars>>
  /\ \/ u_pc = "check_article" /\ ~IsNone(article_id)
     \/ u_pc = "create_article" /\ IsNone(article_id)
     \/ u_pc = "load"
     \/ u_pc = "loop" /\ u_idx \in DataFiles /\ ~IsNone(local_files[u_idx])
  /\ u_pc' = "raised"
  /\ UNCHANGED <<article_id_arg, article_exists_resp, yaml_file, yaml_at_start, local_files,
                 remote_files, article_id, existing_data, existing_files, files_by_name,
                 files_in_article, newly_uploaded_files, u_idx, next_file_id, calls>>

\* main() is not running
UploadIdle ==
  /\ u_pc = "idle"
  /\ article_id_arg = None
  /\ article_exists_resp = FALSE
  /\ yaml_file = None
  /\ yaml_at_start = None
  /\ local_files = EmptyDict
  /\ remote_files = <<>>
  /\ article_id = None
  /\ existing_data = EmptyDict
  /\ existing_files = <<>>
  /\ files_by_name = EmptyDict
  /\ files_in_article = EmptyDict
  /\ newly_uploaded_files = EmptyDict
  /\ u_idx = 1
  /\ next_file_id = 1
  /\ calls = <<>>

UploadNext ==
  \/ CheckArticle
  \/ CreateArticle
  \/ LoadAndList
  \/ ProcessDataFile
  \/ WriteYaml
  \/ FigshareError

\* ========================================================= analyze_symmetry
\* material ids
MatIds == 1..MaxStructs

\* Datasets spglib.get_symmetry_dataset can answer with (the attributes the
\* function reads); rotations and translations hold one entry per operation.
SymDatasets ==
  { [number |-> 1, hall_number |-> 1, international |-> "P1",
     hall |-> "P 1", choice |-> "", pointgroup |-> "1", wyckoffs |-> <<"a">>,
     rotations |-> <<"E">>, translations |-> <<"t0">>],
    [number |-> 225, hall_number |-> 523, international |-> "Fm-3m",
     hall |-> "-F 4 2 3", choice |-> "", pointgroup |-> "m-3m", wyckoffs |-> <<"a", "b">>,
     rotations |-> <<"E", "I">>, translations |-> <<"t0", "t0">>] }

\* what spglib answers: None or a dataset
SpglibAnswers == {None} \cup {Some(ds) : ds \in SymDatasets}

\* dicts of structures: sequences of items with pairwise distinct keys
StructureDicts ==
  { s \in SeqUpTo([key : MatIds, sym : SpglibAnswers], MaxStructs) :
      \A i, j \in DOMAIN s : s[i].key = s[j].key => i = j }

SymInit ==
  /\ s_pc = "loop"
  /\ structures \in StructureDicts
  /\ symprec \in {"1e-2", "1e-5"}
  /\ angle_tolerance = "-1"
  /\ s_idx = 1
  /\ results = <<>>
  /\ analyzed = <<>>
  /\ s_error = None
  /\ df_sym = None

\* a swapped pair of keys
sym_key_map_swapped ==
  [number |-> "hall_num", hall_number |-> "spg_num",
   international |-> "international_spg_name", hall |-> "hall_symbol",
   choice |-> "choice_symbol", pointgroup |-> "point_group",
   wyckoffs |-> "wyckoff_symbols"]

\* lines 67-75: spglib attribute -> column name
sym_key_map ==
  [number |-> "spg_num", hall_number |-> "hall_num",
   international |-> "international_spg_name", hall |-> "hall_symbol",
   choice |-> "choice_symbol", pointgroup |-> "point_group",
   wyckoffs |-> "wyckoff_symbols"]

\* d1 | d2 on dicts: the right operand's values win
DictOr(f, g) == [x \in (DOMAIN f) \cup (DOMAIN g) |-> IF x \in DOMAIN g THEN g[x] ELSE f[x]]

\* lines 101-111: the row stored for one structure
SymInfo(sym_data, prec, tol) ==
  DictOr(
    DictOr([new_key \in {sym_key_map[old_key] : old_key \in DOMAIN sym_key_map} |->
              sym_data[CHOOSE old_key \in DOMAIN sym_key_map : sym_key_map[old_key] = new_key]],
           [n_sym_ops |-> Len(sym_data.rotations),
            n_rot_syms |-> Len(sym_data.rotations),
            n_trans_syms |-> Len(sym_data.translations)]),
    [symprec |-> prec, angle_tolerance |-> tol])

\* results[struct_key] = row, on a dict kept in insertion order
DictSet(d, key, row) ==
  IF \E i \in DOMAIN d : d[i].key = key
    THEN [i \in DOMAIN d |-> IF d[i].key = key THEN [key |-> key, row |-> row] ELSE d[i]]
    ELSE Append(d, [key |-> key, row |-> row])

\* pd.DataFrame(dict of dicts): one column per outer key, one row per inner key
DataFrame(d) ==
  [columns |-> [i \in DOMAIN d |-> d[i].key],
   index |-> UNION {DOMAIN d[i].row : i \in DOMAIN d},
   cell |-> [i \in DOMAIN d |-> d[i].row]]

\* DataFrame.T of such a frame: one row per outer key, in order; row r holds
\* the values of column r
Transposed(df) ==
  [index |-> df.columns,
   index_name |-> "material_id",
   columns |-> df.index,
   row |-> [i \in DOMAIN df.columns |-> df.cell[i]]]

\* lines 87-111: one iteration of the loop over structures.items()
AnalyzeStructure ==
  /\ UNCHANGED <<uvars, cvars, hvars, bvars>>
  /\ s_pc = "loop"
  /\ s_idx \in DOMAIN structures
  /\ LET struct_key == structures[s_idx].key
         sym_data == structures[s_idx].sym
     IN  /\ analyzed' = Append(analyzed, struct_key)
         /\ \/ \* lines 98-99
               /\ IsNone(sym_data)
               /\ s_error' = Some(struct_key)
               /\ s_pc' = "raised"
               /\ UNCHANGED <<results, s_idx>>
            \/ \* lines 101-111
               /\ ~IsNone(sym_data)
               /\ results' = DictSet(results, struct_key,
                                     SymInfo(Val(sym_data), symprec, angle_tolerance))
               /\ s_idx' = s_idx + 1
               /\ UNCHANGED <<s_error, s_pc>>
  /\ UNCHANGED <<structures, symprec, angle_tolerance, df_sym>>

\* lines 113-115: the loop is over, build and return the DataFrame
ReturnDataFrame ==
  /\ UNCHANGED <<uvars, cvars, hvars, bvars>>
  /\ s_pc = "loop"
  /\ s_idx = Len(structures) + 1
  /\ df_sym' = Some(Transposed(DataFrame(results)))
  /\ s_pc' = "returned"
  /\ UNCHANGED <<structures, symprec, angle_tolerance, s_idx, results, analyzed, s_error>>

\* analyze_symmetry is not running
SymIdle ==
  /\ s_pc = "idle"
  /\ structures = <<>>
  /\ symprec = "1e-2"
  /\ angle_tolerance = "-1"
  /\ s_idx = 1
  /\ results = <<>>
  /\ analyzed = <<>>
  /\ s_error = None
  /\ df_sym = None

SymNext ==
  \/ AnalyzeStructure
  \/ ReturnDataFrame

\* ============================================== pred_vs_ref_struct_symmetry
CmpIds == 1..MaxMats

\* NaN / None in a cell is None; a number v is Some(v)
\* DataFrames "as returned by analyze_symmetry", reduced to the two columns
\* the function reads: an index and, per column, a value for every row
SymFrames ==
  UNION { { [index |-> I,
             cols |-> [spg_num |-> [i \in I |-> Some(ds[i].number)],
                       n_sym_ops |-> [i \in I |-> Some(Len(ds[i].rotations))]]]
              : ds \in [I -> SymDatasets] }
          : I \in SUBSET CmpIds }

CmpInit ==
  /\ c_pc = "start"
  /\ df_sym_pred \in SymFrames
  /\ df_sym_ref \in SymFrames
  /\ pred_structs \in SUBSET CmpIds
  /\ ref_structs \in SUBSET CmpIds
  /\ rms_dist \in [CmpIds -> {None, Some(<<1, 2>>)}]
  /\ df_result = None
  /\ shared_ids = {}
  /\ c_returned = None

\* Series - Series: aligned on the union of the two indexes, NaN where a
\* side has no value
SeriesSub(a, b) ==
  [i \in (DOMAIN a) \cup (DOMAIN b) |->
     IF i \in DOMAIN a /\ i \in DOMAIN b /\ ~IsNone(a[i]) /\ ~IsNone(b[i])
       THEN Some(Val(a[i]) - Val(b[i]))
       ELSE None]

\* df[col] = series: the series is aligned to the frame's index
SetColumn(df, col, series) ==
  [df EXCEPT !.cols = Put(df.cols, col,
     [i \in df.index |-> IF i \in DOMAIN series THEN series[i] ELSE None])]

\* df[col] = scalar
SetScalarColumn(df, col, v) ==
  [df EXCEPT !.cols = Put(df.cols, col, [i \in df.index |-> v])]

\* df.loc[row, col] = v: a missing row or column is added, filled with NaN
LocSet(df, r, col, v) ==
  LET index == df.index \cup {r}
      names == (DOMAIN df.cols) \cup {col}
  IN  [index |-> index,
       cols |-> [c \in names |->
                   [i \in index |->
                      IF i = r /\ c = col THEN v
                      ELSE IF c \in DOMAIN df.cols /\ i \in df.index THEN df.cols[c][i]
                      ELSE None]]]

\* line 144: df_result is a copy, a DataFrame object of its own
CopyOf(df) == df

\* lines 144-156: copy, the two difference columns, the empty RMSD column
CopyAndDiff ==
  /\ UNCHANGED <<uvars, svars, hvars, bvars>>
  /\ c_pc = "start"
  /\ df_result' =
       Some(SetScalarColumn(
              SetColumn(
                SetColumn(CopyOf(df_sym_pred), "spg_num_diff",
                          SeriesSub(df_sym_pred.cols["spg_num"], df_sym_ref.cols["spg_num"])),
                "n_sym_ops_diff",
                SeriesSub(df_sym_pred.cols["n_sym_ops"], df_sym_ref.cols["n_sym_ops"])),
              "structure_rmsd_vs_dft", None))
  /\ shared_ids' = pred_structs \cap ref_structs
  /\ c_pc' = "loop"
  /\ UNCHANGED <<df_sym_pred, df_sym_ref, pred_structs, ref_structs, rms_dist, c_returned>>

\* lines 165-170: one iteration over shared_ids (a set: any order)
MatchStructures ==
  /\ UNCHANGED <<uvars, svars, hvars, bvars>>
  /\ c_pc = "loop"
  /\ \E mat_id \in shared_ids :
       LET dist == IF IsNone(rms_dist[mat_id]) THEN <<None, None>>
                   ELSE <<Some(Val(rms_dist[mat_id])[1]), Some(Val(rms_dist[mat_id])[2])>>
       IN  /\ df_result' =
                Some(LocSet(LocSet(Val(df_result), mat_id, "structure_rmsd_vs_dft", dist[1]),
                            mat_id, "max_pair_dist", dist[2]))
           /\ shared_ids' = shared_ids \ {mat_id}
  /\ UNCHANGED <<c_pc, df_sym_pred, df_sym_ref, pred_structs, ref_structs, rms_dist,
                 c_returned>>

\* line 172
ReturnResult ==
  /\ UNCHANGED <<uvars, svars, hvars, bvars>>
  /\ c_pc = "loop"
  /\ shared_ids = {}
  /\ c_returned' = df_result
  /\ c_pc' = "returned"
  /\ UNCHANGED <<df_sym_pred, df_sym_ref, pred_structs, ref_structs, rms_dist,
                 df_result, shared_ids>>

\* pred_vs_ref_struct_symmetry is not running
CmpIdle ==
  /\ c_pc = "idle"
  /\ df_sym_pred = None
  /\ df_sym_ref = None
  /\ pred_structs = {}
  /\ ref_structs = {}
  /\ rms_dist = EmptyDict
  /\ df_result = None
  /\ shared_ids = {}
  /\ c_returned = None

CmpNext ==
  \/ CopyAndDiff
  \/ MatchStructures
  \/ ReturnResult

\* ================================ hist_classify_stable_as_func_of_hull_dist
\* A Series is a function from the materials 1..n to floats; a float is
\* Some(v), NaN is None.  Arithmetic with NaN gives NaN, comparisons with NaN
\* are False.
FAdd(a, b) == IF IsNone(a) \/ IsNone(b) THEN None ELSE Some(Val(a) + Val(b))
FSub(a, b) == IF IsNone(a) \/ IsNone(b) THEN None ELSE Some(Val(a) - Val(b))
FLe(a, t) == ~IsNone(a) /\ Val(a) <= t
FGt(a, t) == ~IsNone(a) /\ Val(a) > t

SeriesOver(n, S) == [1..n -> S]

HistInit ==
  /\ h_pc = "entry"
  /\ \E n \in 0..MaxMaterials :
       /\ formation_energy_targets \in SeriesOver(n, {Some(0), None})
       /\ formation_energy_preds \in SeriesOver(n, {Some(-1), Some(1), None})
       /\ e_above_hull_vals \in SeriesOver(n, {Some(0), Some(1), None})
       /\ std_vals \in {None} \cup {Some(sv) : sv \in SeriesOver(n, {Some(2), None})}
  /\ criterion \in {"energy", "std", "neg"}
  /\ energy_type \in {"true", "pred"}
  /\ error = <<>>
  /\ mean = <<>>
  /\ test = <<>>
  /\ classes = None
  /\ counts = None
  /\ n_total_pos = 0

\* line 72: stability_thresh = (0, 0.1)[0]
stability_thresh == 0

\* lines 63-67: test with std_vals added or subtracted
TestOf(mean_vals, std, crit) ==
  IF IsNone(std) THEN mean_vals
  ELSE IF crit = "std" THEN [i \in DOMAIN mean_vals |-> FAdd(mean_vals[i], Val(std)[i])]
  ELSE IF crit = "neg" THEN [i \in DOMAIN mean_vals |-> FSub(mean_vals[i], Val(std)[i])]
  ELSE mean_vals

\* lines 56-67: the entry assertion, then error, mean and test
EnterAndShift ==
  /\ UNCHANGED <<uvars, svars, cvars, bvars>>
  /\ h_pc = "entry"
  /\ IF \E i \in DOMAIN e_above_hull_vals : IsNone(e_above_hull_vals[i])
       THEN /\ h_pc' = "entry_assert_failed"
            /\ UNCHANGED <<error, mean, test>>
       ELSE /\ error' = [i \in DOMAIN e_above_hull_vals |->
                           FSub(formation_energy_preds[i], formation_energy_targets[i])]
            /\ test' = TestOf([i \in DOMAIN e_above_hull_vals |->
                                 FAdd(error'[i], e_above_hull_vals[i])],
                              std_vals, criterion)
            \* test and mean are one object: += and -= change both
            /\ mean' = test'
            /\ h_pc' = "classify"
  /\ UNCHANGED <<formation_energy_targets, formation_energy_preds, e_above_hull_vals,
                 std_vals, criterion, energy_type, classes, counts, n_total_pos>>

\* lines 74-77: the four boolean masks, one truth value per material
actual_pos == [i \in DOMAIN e_above_hull_vals |-> FLe(e_above_hull_vals[i], stability_thresh)]
actual_neg == [i \in DOMAIN e_above_hull_vals |-> FGt(e_above_hull_vals[i], stability_thresh)]
model_pos == [i \in DOMAIN test |-> FLe(test[i], stability_thresh)]
model_neg == [i \in DOMAIN test |-> FGt(test[i], stability_thresh)]

\* mask & mask
MaskAnd(a, b) == [i \in DOMAIN a |-> a[i] /\ b[i]]
\* series[mask]: the rows of the series the mask selects
Select(series, mask) == [i \in {j \in DOMAIN series : mask[j]} |-> series[i]]

\* lines 74-98: the masks, n_total_pos and the four classes
Classify ==
  /\ UNCHANGED <<uvars, svars, cvars, bvars>>
  /\ h_pc = "classify"
  /\ n_total_pos' =
       Cardinality(DOMAIN Select(e_above_hull_vals, MaskAnd(actual_pos, model_pos)))
       + Cardinality(DOMAIN Select(e_above_hull_vals, MaskAnd(actual_pos, model_neg)))
  /\ LET src == IF energy_type = "true" THEN e_above_hull_vals ELSE mean
     IN  classes' = Some([true_pos |-> Select(src, MaskAnd(actual_pos, model_pos)),
                          false_neg |-> Select(src, MaskAnd(actual_pos, model_neg)),
                          false_pos |-> Select(src, MaskAnd(actual_neg, model_pos)),
                          true_neg |-> Select(src, MaskAnd(actual_neg, model_neg))])
  /\ h_pc' = "stats"
  /\ UNCHANGED <<formation_energy_targets, formation_energy_preds, e_above_hull_vals,
                 std_vals, criterion, energy_type, error, mean, test, counts>>

\* lines 119-129: the class sizes and the ratios; a zero denominator raises
\* ZeroDivisionError (Null, PPV, TPR, and F1 when PPV + TPR = 0)
CountAndRate ==
  /\ UNCHANGED <<uvars, svars, cvars, bvars>>
  /\ h_pc = "stats"
  /\ LET n == [c \in DOMAIN Val(classes) |-> Cardinality(DOMAIN Val(classes)[c])]
     IN  /\ counts' = Some(n)
         /\ h_pc' = IF \/ Len(e_above_hull_vals) = 0
                       \/ n.true_pos + n.false_pos = 0
                       \/ n_total_pos = 0
                       \/ n.true_pos = 0
                      THEN "zero_division"
                      ELSE "check"
  /\ UNCHANGED <<formation_energy_targets, formation_energy_preds, e_above_hull_vals,
                 std_vals, criterion, energy_type, error, mean, test, classes,
                 n_total_pos>>

\* lines 131-133: the assertion that the classes hold every material
CheckPartition ==
  /\ UNCHANGED <<uvars, svars, cvars, bvars>>
  /\ h_pc = "check"
  /\ LET n == Val(counts)
     IN  h_pc' = IF n.true_pos + n.false_pos + n.true_neg + n.false_neg
                      = Len(formation_energy_targets)
                   THEN "returned"
                   ELSE "assert_failed"
  /\ UNCHANGED <<formation_energy_targets, formation_energy_preds, e_above_hull_vals,
                 std_vals, criterion, energy_type, error, mean, test, classes, counts,
                 n_total_pos>>

\* the function is not running
HistIdle ==
  /\ h_pc = "idle"
  /\ formation_energy_targets = <<>>
  /\ formation_energy_preds = <<>>
  /\ e_above_hull_vals = <<>>
  /\ std_vals = None
  /\ criterion = "energy"
  /\ energy_type = "true"
  /\ error = <<>>
  /\ mean = <<>>
  /\ test = <<>>
  /\ classes = None
  /\ counts = None
  /\ n_total_pos = 0

HistNext ==
  \/ EnterAndShift
  \/ Classify
  \/ CountAndRate
  \/ CheckPartition

\* ==================================================== slurm_array_bowsr_wbm
\* the tasks of the job array: SLURM_ARRAY_TASK_ID runs over 1..N
Tasks == 1..job_array_size

BowsrInit ==
  /\ \E len \in 0..MaxRows : df_wbm = [i \in 1..len |-> i]
  /\ job_array_size \in 1..MaxTasks
  /\ b_pc = [t \in Tasks |-> "start"]
  /\ df_this_job = [t \in Tasks |-> <<>>]
  /\ relax_results = [t \in Tasks |-> {}]

Min(a, b) == IF a <= b THEN a ELSE b

\* np.array_split(ary, n)[k], k counted from 0: the first len % n sections
\* hold len // n + 1 rows, the others len // n
ArraySplit(ary, n, k) ==
  LET Neach == Len(ary) \div n
      extras == Len(ary) % n
      start == k * Neach + Min(k, extras)
      size == IF k < extras THEN Neach + 1 ELSE Neach
  IN  SubSeq(ary, start + 1, start + size)

\* line 51: job_array_id of the task
job_array_id(t) == t

\* lines 103-105: the task's chunk
LoadChunk(t) ==
  /\ UNCHANGED <<uvars, svars, cvars, hvars>>
  /\ b_pc[t] = "start"
  /\ df_this_job' = [df_this_job EXCEPT ![t] =
                       ArraySplit(df_wbm, job_array_size + 1, job_array_id(t))]
  /\ b_pc' = [b_pc EXCEPT ![t] = "relax"]
  /\ UNCHANGED <<df_wbm, job_array_size, relax_results>>

\* lines 126-147: relax the next material of the chunk
RelaxMaterial(t) ==
  /\ UNCHANGED <<uvars, svars, cvars, hvars>>
  /\ b_pc[t] = "relax"
  /\ \E i \in DOMAIN df_this_job[t] :
       /\ df_this_job[t][i] \notin relax_results[t]
       /\ \A j \in 1..(i - 1) : df_this_job[t][j] \in relax_results[t]
       /\ relax_results' = [relax_results EXCEPT ![t] = @ \cup {df_this_job[t][i]}]
  /\ UNCHANGED <<b_pc, df_wbm, job_array_size, df_this_job>>

\* lines 151-156: the loop is over, write the task's results
WriteResults(t) ==
  /\ UNCHANGED <<uvars, svars, cvars, hvars>>
  /\ b_pc[t] = "relax"
  /\ Range(df_this_job[t]) \subseteq relax_results[t]
  /\ b_pc' = [b_pc EXCEPT ![t] = "done"]
  /\ UNCHANGED <<df_wbm, job_array_size, df_this_job, relax_results>>

\* no job array is running
BowsrIdle ==
  /\ b_pc = <<>>
  /\ df_wbm = <<>>
  /\ job_array_size = 1
  /\ df_this_job = <<>>
  /\ relax_results = <<>>

BowsrNext ==
  \/ \E t \in Tasks : LoadChunk(t)
  \/ \E t \in Tasks : RelaxMaterial(t)
  \/ \E t \in Tasks : WriteResults(t)

\* ========================================================== specifications
InitUpload == UploadInit /\ SymIdle /\ CmpIdle /\ HistIdle /\ BowsrIdle
InitSym == SymInit /\ UploadIdle /\ CmpIdle /\ HistIdle /\ BowsrIdle
InitCmp == CmpInit /\ UploadIdle /\ SymIdle /\ HistIdle /\ BowsrIdle
InitHist == HistInit /\ UploadIdle /\ SymIdle /\ CmpIdle /\ BowsrIdle
InitBowsr == BowsrInit /\ UploadIdle /\ SymIdle /\ CmpIdle /\ HistIdle

SpecUpload == InitUpload /\ [][UploadNext]_vars
SpecSym == InitSym /\ [][SymNext]_vars
SpecCmp == InitCmp /\ [][CmpNext]_vars
SpecHist == InitHist /\ [][HistNext]_vars
SpecBowsr == InitBowsr /\ [][BowsrNext]_vars

\* ================================================================== claims
\* ---- upload_data_files_to_figshare.main
\* indices of the upload_file calls made for data file d
UploadCallsOf(d) ==
  {i \in DOMAIN calls : calls[i].op = "upload_file" /\ calls[i].file = d}
CreateCalls == {i \in DOMAIN calls : calls[i].op = "create_article"}
FileCalls ==
  {i \in DOMAIN calls : calls[i].op \in {"list_article_files", "upload_file"}}
\* the remote file of the data file's name, if one is listed
HasRemote(d) == Basename(FilePath(d)) \in DOMAIN files_by_name
RemoteOf(d) == files_by_name[Basename(FilePath(d))]

\* C1: after a run of main(), no data file that exists locally, whose
\* basename is the name of a file listed for the article and whose MD5
\* equals that remote file's computed_md5, has been uploaded; its entry's url
\* is the download URL of the remote file's id and it is not in
\* newly_uploaded_files.
C1_UnchangedNeverReuploaded ==
  u_pc = "returned" =>
    \A d \in DataFiles :
      ( /\ ~IsNone(local_files[d])
        /\ HasRemote(d)
        /\ Val(local_files[d]) = RemoteOf(d).computed_md5 )
      => /\ UploadCallsOf(d) = {}
         /\ Val(yaml_file)[Name(d)]["url"] = DownloadUrl(RemoteOf(d).id)
         /\ Name(d) \notin DOMAIN newly_uploaded_files

\* C2: after a run of main(), every data file that exists locally and has no
\* file of its name in the article, or whose content differs from the remote
\* copy (local MD5 # remote computed_md5), has been uploaded exactly once, and
\* its url in the written YAML is the download URL of the returned file id.
C2_NewOrModifiedUploadedOnce ==
  u_pc = "returned" =>
    \A d \in DataFiles :
      ( /\ ~IsNone(local_files[d])
        /\ (~HasRemote(d) \/ Val(local_files[d]) # RemoteOf(d).computed_md5) )
      => /\ Cardinality(UploadCallsOf(d)) = 1
         /\ \A i \in UploadCallsOf(d) :
              Val(yaml_file)[Name(d)]["url"] = DownloadUrl(calls[i].id)

\* C3: after a run of main() that completes without exception, every key of
\* the YAML loaded at the start is a key of the YAML written, and the entry
\* of every key that is no DataFiles member, or whose data file does not
\* exist locally, is written back unchanged.
C3_ExistingEntriesPreserved ==
  u_pc = "returned" =>
    LET before == LoadYaml(yaml_at_start)
        after == Val(yaml_file)
    IN  /\ DOMAIN before \subseteq DOMAIN after
        /\ \A k \in DOMAIN before :
             (k \notin DataFileNames \/ IsNone(local_files[k[2]]))
               => after[k] = before[k]

\* a run returned in which an entry of a missing data file and a hand-written
\* entry were loaded, while another file was uploaded and its entry changed
C3_Witness ==
  /\ u_pc = "returned"
  /\ ~IsNone(yaml_at_start)
  /\ OtherKey \in DOMAIN Val(yaml_at_start)
  /\ \E d \in DataFiles : Name(d) \in DOMAIN Val(yaml_at_start) /\ IsNone(local_files[d])
  /\ \E d \in DataFiles :
       /\ Name(d) \in DOMAIN Val(yaml_at_start)
       /\ UploadCallsOf(d) # {}
       /\ Val(yaml_file)[Name(d)] # Val(yaml_at_start)[Name(d)]

\* C4: if the given article_id is not None and the article exists,
\* create_article is never called and every list_article_files and
\* upload_file call uses the given id; otherwise create_article is called
\* exactly once, before any file is listed or uploaded, and every later call
\* uses the id it returned.
C4_OneArticlePerRun ==
  IF ~IsNone(article_id_arg) /\ article_exists_resp
    THEN /\ CreateCalls = {}
         /\ \A i \in FileCalls : calls[i].article = article_id_arg
    ELSE /\ Cardinality(CreateCalls) <= 1
         /\ (u_pc \in {"load", "loop", "returned"} => Cardinality(CreateCalls) = 1)
         /\ \A i \in FileCalls :
              \E c \in CreateCalls : c < i /\ calls[i].article = calls[c].article

\* a run returned that was given the id of an article that does not exist,
\* and uploaded a file
C4_Witness ==
  /\ u_pc = "returned"
  /\ ~IsNone(article_id_arg)
  /\ ~article_exists_resp
  /\ \E d \in DataFiles : UploadCallsOf(d) # {}

\* a run returned that was given an existing article and uploaded a file
C4_WitnessExisting ==
  /\ u_pc = "returned"
  /\ article_exists_resp
  /\ \E d \in DataFiles : UploadCallsOf(d) # {}

\* ---- structure.analyze_symmetry
StructKeys == [i \in DOMAIN structures |-> structures[i].key]
AllAnalyzable == \A i \in DOMAIN structures : ~IsNone(structures[i].sym)
\* the first structure spglib answers None for
FirstNone ==
  CHOOSE i \in DOMAIN structures :
    /\ IsNone(structures[i].sym)
    /\ \A j \in 1..(i - 1) : ~IsNone(structures[j].sym)

\* C6: analyze_symmetry returns only when spglib answered a dataset for every
\* structure, and then the DataFrame has one row per key of the input dict, in
\* input order, holding the remapped symmetry fields, the operation counts,
\* symprec and angle_tolerance; it raises only when spglib answered None, the
\* ValueError names the first such structure, no later structure was
\* analyzed and there is no DataFrame.
C6_AllRowsOrValueError ==
  /\ s_pc = "returned" =>
       /\ AllAnalyzable
       /\ Val(df_sym).index = StructKeys
       /\ \A i \in DOMAIN structures :
            LET row == Val(df_sym).row[i]
                sym_data == Val(structures[i].sym)
            IN  /\ row["spg_num"] = sym_data.number
                /\ row["hall_num"] = sym_data.hall_number
                /\ row["international_spg_name"] = sym_data.international
                /\ row["hall_symbol"] = sym_data.hall
                /\ row["choice_symbol"] = sym_data.choice
                /\ row["point_group"] = sym_data.pointgroup
                /\ row["wyckoff_symbols"] = sym_data.wyckoffs
                /\ row["n_sym_ops"] = Len(sym_data.rotations)
                /\ row["n_rot_syms"] = Len(sym_data.rotations)
                /\ row["n_trans_syms"] = Len(sym_data.translations)
                /\ row["symprec"] = symprec
                /\ row["angle_tolerance"] = angle_tolerance
  /\ s_pc = "raised" =>
       /\ ~AllAnalyzable
       /\ s_error = Some(structures[FirstNone].key)
       /\ analyzed = SubSeq(StructKeys, 1, FirstNone)
       /\ IsNone(df_sym)
  /\ s_pc = "loop" => IsNone(df_sym) /\ IsNone(s_error)

\* the ValueError was raised at the second of three structures
C6_Witness ==
  /\ s_pc = "raised"
  /\ Len(structures) = 3
  /\ Len(analyzed) = 2
  /\ Len(results) = 1

\* a DataFrame of two rows was returned
C6_WitnessReturned ==
  /\ s_pc = "returned"
  /\ Len(Val(df_sym).index) = 2

\* ---- structure.pred_vs_ref_struct_symmetry
NewColumns == {"spg_num_diff", "n_sym_ops_diff", "structure_rmsd_vs_dft", "max_pair_dist"}

\* C5: after the call the caller's df_sym_pred has the columns spg_num_diff,
\* n_sym_ops_diff, structure_rmsd_vs_dft and max_pair_dist.
C5_ModifiedInPlace ==
  c_pc = "returned" => NewColumns \subseteq DOMAIN df_sym_pred.cols

\* ---- plot_funcs.hist_classify_stable_as_func_of_hull_dist
\* C7: whenever the assertion of lines 131-133 is evaluated (the entry
\* assertion held: e_above_hull_vals has no missing value), the four class
\* sizes sum to len(formation_energy_targets) and the assertion does not fail.
C7_ClassesPartitionMaterials ==
  h_pc \in {"returned", "assert_failed"} =>
    /\ Val(counts).true_pos + Val(counts).false_pos + Val(counts).true_neg
         + Val(counts).false_neg = Len(formation_energy_targets)
    /\ h_pc # "assert_failed"

\* ---- slurm_array_bowsr_wbm
\* C8: when all N tasks of the array 1..N are done, the chunks of distinct
\* tasks are pairwise disjoint and the materials relaxed by the tasks are the
\* whole dataset.
C8_EveryMaterialRelaxedOnce ==
  (\A t \in Tasks : b_pc[t] = "done") =>
    /\ \A t1, t2 \in Tasks :
         t1 # t2 => Range(df_this_job[t1]) \cap Range(df_this_job[t2]) = {}
    /\ UNION {relax_results[t] : t \in Tasks} = Range(df_wbm)

=============================================================================
